---- MODULE Spec2Model ----
(***************************************************************************)
(* Model of crates/gglib-download/scripts/hf_xet_downloader.py: the helper *)
(* process that downloads the files of a plan through huggingface_hub and  *)
(* reports newline-delimited JSON events on stdout.                        *)
(*                                                                         *)
(* Text is modelled as sequences of one-character strings; time is the     *)
(* value of time.monotonic() in milliseconds.                              *)
(***************************************************************************)
EXTENDS Integers, Sequences, FiniteSets, TLC

\* ------------------------------------------------------------------ bounds
\* Largest number of --file occurrences on the command line.
MaxFiles == 2
\* Largest content length (bytes) of a remote file.
MaxSize == 1
\* A whole session is observed for this many steps of 100 ms of the clock.
MaxTicks == 2
\* A single transfer is observed for this many steps of 100 ms of the clock.
MaxBarTicks == 5
\* Largest number of characters of a --file value parsed on its own.
MaxRawLen == 4

\* ----------------------------------------------------------- constants
\* MIN_PROGRESS_INTERVAL_S = 0.2 (seconds), here in milliseconds.
MIN_PROGRESS_INTERVAL_S == 200

\* Optional[T]: None is the empty sequence, a value v is <<v>>.
None == <<>>
Some(v) == <<v>>

\* ------------------------------------------------------------------- text
RECURSIVE LStripSet(_, _)
\* str.lstrip(chars): drop leading characters that are in chars.
LStripSet(s, chars) ==
    IF s # <<>> /\ Head(s) \in chars THEN LStripSet(Tail(s), chars) ELSE s

RECURSIVE RStripSet(_, _)
RStripSet(s, chars) ==
    IF s # <<>> /\ s[Len(s)] \in chars
    THEN RStripSet(SubSeq(s, 1, Len(s) - 1), chars)
    ELSE s

\* The characters str.strip() and int() take for whitespace (of those
\* the model's text is made of).
Whitespace == {" ", "\t"}

\* str.strip(): drop leading and trailing whitespace.
Strip(s) == RStripSet(LStripSet(s, Whitespace), Whitespace)

\* The positions at which sep occurs in s.
Occurrences(s, sep) ==
    { i \in 1..(Len(s) - Len(sep) + 1) : SubSeq(s, i, i + Len(sep) - 1) = sep }

\* `separator in raw`
Contains(s, sep) == Occurrences(s, sep) # {}

Max(S) == CHOOSE x \in S : \A y \in S : y <= x

\* raw.rsplit(separator, 1) for a separator that occurs: split at the last
\* occurrence.
RSplit1(s, sep) ==
    LET i == Max(Occurrences(s, sep))
    IN  << SubSeq(s, 1, i - 1), SubSeq(s, i + Len(sep), Len(s)) >>

Digits == {"0", "1", "2", "3", "4", "5", "6", "7", "8", "9"}

DigitValue(c) ==
    CASE c = "0" -> 0 [] c = "1" -> 1 [] c = "2" -> 2 [] c = "3" -> 3
      [] c = "4" -> 4 [] c = "5" -> 5 [] c = "6" -> 6 [] c = "7" -> 7
      [] c = "8" -> 8 [] c = "9" -> 9

RECURSIVE DigitsValue(_)
DigitsValue(s) ==
    IF s = <<>> THEN 0
    ELSE 10 * DigitsValue(SubSeq(s, 1, Len(s) - 1)) + DigitValue(s[Len(s)])

\* The digits of an int() literal: digits, single underscores only between
\* digits.
IsDigitRun(s) ==
    /\ s # <<>>
    /\ \A i \in 1..Len(s) : s[i] \in Digits \cup {"_"}
    /\ s[1] # "_" /\ s[Len(s)] # "_"
    /\ \A i \in 1..(Len(s) - 1) : ~(s[i] = "_" /\ s[i + 1] = "_")

SelectDigits(s) == SelectSeq(s, LAMBDA c : c \in Digits)

\* int(text): None stands for ValueError.
PyInt(text) ==
    LET t    == Strip(text)
        sign == IF t # <<>> /\ Head(t) \in {"+", "-"} THEN Head(t) ELSE ""
        body == IF sign = "" THEN t ELSE Tail(t)
    IN  IF IsDigitRun(body)
        THEN [ok |-> TRUE,
              value |-> IF sign = "-" THEN 0 - DigitsValue(SelectDigits(body))
                        ELSE DigitsValue(SelectDigits(body))]
        ELSE [ok |-> FALSE, value |-> 0]

\* ------------------------------------------------------------ FileSpec
FileSpec(path, size) == [path |-> path, size |-> size]

display_name(spec) == spec.path

\* Mutant of Separators: "=" is tried before "::".
SeparatorsSwapped == << <<"=">>, <<":", ":">> >>

Separators == << <<":", ":">>, <<"=">> >>

\* The body of the loop of parse_file_specs for one stripped, non-blank
\* entry: the first separator of ("::", "=") that occurs decides the split.
ParseEntry(raw) ==
    LET found == { k \in 1..Len(Separators) : Contains(raw, Separators[k]) }
        split == IF found = {} THEN << raw, <<>> >>
                 ELSE RSplit1(raw, Separators[CHOOSE k \in found :
                                                 \A j \in found : k <= j])
        parsed == PyInt(split[2])
        size  == IF found # {} /\ parsed.ok THEN Some(parsed.value) ELSE None
    IN  FileSpec(LStripSet(split[1], {"/", " "}), size)

RECURSIVE ParseFromSkipsInvalid(_, _)
\* Mutant of ParseFrom: an entry that normalizes to an empty path is skipped
\* instead of raising.
ParseFromSkipsInvalid(raw_values, specs) ==
    IF raw_values = <<>>
    THEN IF specs = <<>>
         THEN [ok |-> FALSE, specs |-> <<>>,
               message |-> [text |-> "At least one --file argument is required",
                            subject |-> <<>>, detail |-> ""]]
         ELSE [ok |-> TRUE, specs |-> specs,
               message |-> [text |-> "", subject |-> <<>>, detail |-> ""]]
    ELSE LET raw == Strip(Head(raw_values))
         IN  IF raw = <<>> \/ ParseEntry(raw).path = <<>>
             THEN ParseFromSkipsInvalid(Tail(raw_values), specs)
             ELSE ParseFromSkipsInvalid(Tail(raw_values),
                                        Append(specs, ParseEntry(raw)))

RECURSIVE ParseFrom(_, _)
\* parse_file_specs, from the entries still to read and the specs so far.
\* ok = FALSE stands for the ValueError raised, message its text.
ParseFrom(raw_values, specs) ==
    IF raw_values = <<>>
    THEN IF specs = <<>>
         THEN [ok |-> FALSE, specs |-> <<>>,
               message |-> [text |-> "At least one --file argument is required",
                            subject |-> <<>>, detail |-> ""]]
         ELSE [ok |-> TRUE, specs |-> specs,
               message |-> [text |-> "", subject |-> <<>>, detail |-> ""]]
    ELSE LET raw == Strip(Head(raw_values))
         IN  IF raw = <<>> THEN ParseFrom(Tail(raw_values), specs)
             ELSE IF ParseEntry(raw).path = <<>>
                  THEN [ok |-> FALSE, specs |-> <<>>,
                        message |-> [text |-> "Invalid file specification",
                                     subject |-> raw, detail |-> ""]]
                  ELSE ParseFrom(Tail(raw_values),
                                 Append(specs, ParseEntry(raw)))

parse_file_specs(raw_values) == ParseFrom(raw_values, <<>>)


\* ------------------------------------------------------------------ state
VARIABLES
    pc,                  \* the statement the process is at
    argv,                \* the command line: required options given, --probe, --file values
    env,                 \* what the interpreter's environment provides
    environ,             \* os.environ, the two HF_HUB_* variables
    stdout,              \* the lines written to sys.stdout, as events
    stderr,              \* the diagnostics written to sys.stderr
    exit_code,           \* the process's exit status, None while it runs
    hf_xet_version,      \* main's hf_xet_version
    file_specs,          \* main's file_specs
    idx,                 \* position in file_specs of the loop of main
    downloaded_path,     \* download_file's downloaded_path
    bar,                 \* the JsonProgressBar of the transfer in progress
    fs,                  \* what the current file's destination and cache paths hold
    clock,               \* time.monotonic()
    horizon,             \* the clock value up to which the run is observed
    LAST_PROGRESS_EMIT,  \* the module global _LAST_PROGRESS_EMIT
    ops,                 \* history: the external operations invoked so far
    xfer,                \* the transfer in progress inside hf_hub_download, and the timing of its calls
    last_progress        \* history: per file, the last progress event emitted

vars == << pc, fs, argv, env, environ, stdout, stderr, exit_code, hf_xet_version,
           file_specs, idx, downloaded_path, bar, clock, horizon,
           LAST_PROGRESS_EMIT, ops, xfer, last_progress >>

\* The raw --file values a command line is drawn from.
RawEntries ==
    { <<"a">>, <<"/", "b", ":", ":", "2">>, <<" ">>, <<"/">> }

RECURSIVE SeqsUpTo(_, _)
SeqsUpTo(S, n) ==
    IF n = 0 THEN { <<>> }
    ELSE LET shorter == SeqsUpTo(S, n - 1)
         IN  shorter \cup { Append(q, e) : q \in { r \in shorter : Len(r) = n - 1 },
                                            e \in S }

EnvVars == {"HF_HUB_DISABLE_TELEMETRY", "HF_HUB_DISABLE_SYMLINKS_WARNING"}

\* The caller's environment: the telemetry variable set by the caller, the
\* symlinks-warning variable not set.
CallerEnviron ==
    { [v \in EnvVars |-> IF v = "HF_HUB_DISABLE_TELEMETRY" THEN Some("0") ELSE None] }

\* What a path holds: nothing ("absent"), the complete file of an earlier
\* session ("old"), the complete file of this transfer ("new"), or a part of
\* it ("truncated").  The two paths of a file no download_file call is at:
NoFiles == [destination |-> "absent", cache |-> "absent"]

\* The two paths when download_file begins: the destination may hold the
\* file of an earlier session.
FilesBefore == { [destination |-> d, cache |-> "absent"] : d \in {"absent", "old"} }

NoBar == [live |-> FALSE, label |-> <<>>, n |-> 0, total |-> None,
          last_emit |-> 0]

NoXfer == [length |-> 0, ctor_at |-> 0, last_at |-> 0, first_upd |-> None, last_upd |-> None,
           forced |-> 0, throttled |-> 0, gaps |-> {},
           initial |-> 0, advanced |-> 0, emitted |-> <<>>]

Init ==
    /\ pc = "import_huggingface_hub"
    /\ argv \in [required : BOOLEAN, probe : BOOLEAN,
                 files : SeqsUpTo(RawEntries, MaxFiles)]
    /\ env \in [huggingface_hub : BOOLEAN, tqdm : BOOLEAN, hf_xet : BOOLEAN,
                hf_xet_metadata : BOOLEAN, huggingface_hub_metadata : BOOLEAN,
                dest_resolves : BOOLEAN]
    /\ environ \in CallerEnviron
    /\ stdout = <<>>
    /\ stderr = <<>>
    /\ exit_code = None
    /\ hf_xet_version = None
    /\ file_specs = <<>>
    /\ idx = 0
    /\ downloaded_path = None
    /\ bar = NoBar
    /\ fs = NoFiles
    /\ clock = 0
    /\ horizon = MaxTicks * 100
    /\ LAST_PROGRESS_EMIT = 0
    /\ ops = <<>>
    /\ xfer = NoXfer
    /\ last_progress = <<>>

\* sys.exit(code) / return code from main, after writing `lines` to stdout.
Exit(code) ==
    /\ exit_code' = Some(code)
    /\ pc' = "done"

\* An exception no handler catches: the interpreter prints the traceback on
\* stderr and exits with status 1.
Uncaught(exc) ==
    /\ stderr' = Append(stderr, "Traceback")
    /\ Exit(1)

\* emit(status, **payload): binding the keyword arguments fails with a
\* TypeError when payload itself has a "status" key.
EmitBinds(payload) == "status" \notin DOMAIN payload

\* The line emit writes: {"status": status, **payload}.
Message(status, payload) == payload @@ [status |-> status]

\* emit(status, **payload) where the call binds.
Emit(status, payload) == stdout' = Append(stdout, Message(status, payload))

Log(op, i) == ops' = Append(ops, [op |-> op, i |-> i])

\* The steps time.monotonic() may advance by between two update calls, and
\* before a progress bar is constructed.
Delays == {100, 200, 300}
OpenDelays == {0, 100}

\* ------------------------------------------------- module level, lines 20-32
ImportHuggingfaceHub ==
    /\ pc = "import_huggingface_hub"
    /\ IF env.huggingface_hub
       THEN /\ pc' = "import_tqdm"
            /\ UNCHANGED << stderr, exit_code >>
       ELSE /\ stderr' = Append(stderr, "huggingface_hub is required")
            /\ Exit(97)
    /\ UNCHANGED << fs, argv, env, horizon, environ, stdout, hf_xet_version, file_specs, idx,
                    downloaded_path, bar, clock, LAST_PROGRESS_EMIT, ops, xfer,
                    last_progress >>

ImportTqdm ==
    /\ pc = "import_tqdm"
    /\ IF env.tqdm
       THEN /\ pc' = "parse_args"
            /\ UNCHANGED << stderr, exit_code >>
       ELSE /\ stderr' = Append(stderr, "tqdm is required")
            /\ Exit(98)
    /\ UNCHANGED << fs, argv, env, horizon, environ, stdout, hf_xet_version, file_specs, idx,
                    downloaded_path, bar, clock, LAST_PROGRESS_EMIT, ops, xfer,
                    last_progress >>

\* ------------------------------------------------------------------- main
\* parser.parse_args(): --repo-id, --dest and --file are required=True;
\* argparse reports a missing one on stderr and exits with status 2.
ArgsAccepted(a) == a.required /\ Len(a.files) > 0

ParseArgs ==
    /\ pc = "parse_args"
    /\ IF ArgsAccepted(argv)
       THEN /\ pc' = "setdefault"
            /\ UNCHANGED << stderr, exit_code >>
       ELSE /\ stderr' = Append(stderr, "usage")
            /\ Exit(2)
    /\ UNCHANGED << fs, argv, env, horizon, environ, stdout, hf_xet_version, file_specs, idx,
                    downloaded_path, bar, clock, LAST_PROGRESS_EMIT, ops, xfer,
                    last_progress >>

\* os.environ.setdefault(name, "1")
SetDefault(e, name) == IF e[name] = None THEN [e EXCEPT ![name] = Some("1")] ELSE e

SetDefaults ==
    /\ pc = "setdefault"
    /\ environ' = SetDefault(SetDefault(environ, "HF_HUB_DISABLE_TELEMETRY"),
                             "HF_HUB_DISABLE_SYMLINKS_WARNING")
    /\ pc' = "require_hf_xet"
    /\ UNCHANGED << fs, argv, env, horizon, stdout, stderr, exit_code, hf_xet_version,
                    file_specs, idx, downloaded_path, bar, clock,
                    LAST_PROGRESS_EMIT, ops, xfer, last_progress >>

\* Mutant of HfXetMissing: the event is written but sys.exit(90) is missing.
HfXetMissingNoExit ==
    /\ Emit("unavailable", [reason |-> "hf_xet not available"])
    /\ hf_xet_version' = Some("unknown")
    /\ pc' = "hub_version"
    /\ UNCHANGED exit_code

\* require_hf_xet(), when `import hf_xet` fails.
HfXetMissing ==
    /\ Emit("unavailable", [reason |-> "hf_xet not available"])
    /\ Exit(90)
    /\ UNCHANGED hf_xet_version

RequireHfXet ==
    /\ pc = "require_hf_xet"
    /\ IF env.hf_xet
       THEN /\ hf_xet_version' =
                   Some(IF env.hf_xet_metadata THEN "installed" ELSE "unknown")
            /\ pc' = "hub_version"
            /\ UNCHANGED << stdout, exit_code >>
       ELSE HfXetMissing
    /\ UNCHANGED << fs, argv, env, horizon, environ, stderr, file_specs, idx,
                    downloaded_path, bar, clock, LAST_PROGRESS_EMIT, ops, xfer,
                    last_progress >>

\* hub_version = importlib_metadata.version("huggingface_hub"), which raises
\* PackageNotFoundError when the distribution has no metadata.
HubVersion ==
    /\ pc = "hub_version"
    /\ IF env.huggingface_hub_metadata
       THEN /\ pc' = "probe"
            /\ UNCHANGED << stderr, exit_code >>
       ELSE Uncaught("PackageNotFoundError")
    /\ UNCHANGED << fs, argv, env, horizon, environ, stdout, hf_xet_version, file_specs, idx,
                    downloaded_path, bar, clock, LAST_PROGRESS_EMIT, ops, xfer,
                    last_progress >>

\* The keyword arguments of the emit call of the probe branch.
ProbePayload ==
    [status |-> "ok", huggingface_hub |-> "installed", hf_xet |-> hf_xet_version[1]]

\* if args.probe: emit("probe", status="ok", ...); return 0
ProbeReport ==
    /\ pc = "probe"
    /\ argv.probe
    /\ IF EmitBinds(ProbePayload)
       THEN /\ Emit("probe", ProbePayload)
            /\ Exit(0)
            /\ UNCHANGED stderr
       ELSE /\ Uncaught("TypeError")
            /\ UNCHANGED stdout
    /\ UNCHANGED << fs, argv, env, horizon, environ, hf_xet_version, file_specs, idx,
                    downloaded_path, bar, clock, LAST_PROGRESS_EMIT, ops, xfer,
                    last_progress >>

\* try: file_specs = parse_file_specs(args.files)
\* except ValueError as exc: emit("error", message=str(exc)); return 64
ParseFileSpecs ==
    /\ pc = "probe"
    /\ ~argv.probe
    /\ LET r == parse_file_specs(argv.files)
       IN  IF r.ok
           THEN /\ file_specs' = r.specs
                /\ last_progress' = [i \in 1..Len(r.specs) |-> None]
                /\ pc' = "resolve"
                /\ UNCHANGED << stdout, exit_code >>
           ELSE /\ Emit("error", [message |-> r.message])
                /\ Exit(64)
                /\ UNCHANGED << file_specs, last_progress >>
    /\ Log("parse_file_specs", 0)
    /\ UNCHANGED << fs, argv, env, horizon, environ, stderr, hf_xet_version, idx,
                    downloaded_path, bar, clock, LAST_PROGRESS_EMIT, xfer >>

\* dest_root = Path(args.dest).expanduser().resolve(), which raises
\* RuntimeError for a home directory that cannot be determined; then the
\* session banner on stderr.
ResolvePaths ==
    /\ pc = "resolve"
    /\ IF env.dest_resolves
       THEN /\ stderr' = Append(stderr, "Downloading from")
            /\ pc' = "loop"
            /\ idx' = 1
            /\ UNCHANGED exit_code
       ELSE /\ Uncaught("RuntimeError")
            /\ UNCHANGED idx
    /\ UNCHANGED << fs, argv, env, horizon, environ, stdout, hf_xet_version, file_specs,
                    downloaded_path, bar, clock, LAST_PROGRESS_EMIT, ops, xfer,
                    last_progress >>

\* ------------------------------------------------------- JsonProgressBar
\* Mutant of ThrottleSuppresses: the interval is halved.
ThrottleSuppressesHalf(force, now, last_emit) ==
    ~force /\ 2 * (now - last_emit) < MIN_PROGRESS_INTERVAL_S

\* Mutant of ThrottleSuppresses: every update that is not forced is dropped.
ThrottleSuppressesUnforced(force, now, last_emit) == ~force

\* Mutant of ThrottleSuppresses: the time is measured from the start of the
\* process's clock, not from the bar's own last emission.
ThrottleSuppressesSinceStart(force, now, last_emit) ==
    ~force /\ now < MIN_PROGRESS_INTERVAL_S

\* Mutant of ThrottleSuppresses: the force flag is not looked at.
ThrottleSuppressesForced(force, now, last_emit) ==
    now - last_emit < MIN_PROGRESS_INTERVAL_S

\* _emit: `if not force and now - self._last_emit < MIN_PROGRESS_INTERVAL_S: return`
ThrottleSuppresses(force, now, last_emit) ==
    ~force /\ now - last_emit < MIN_PROGRESS_INTERVAL_S

\* int(self.total or 0)
TotalOrZero(total) == IF total = None THEN 0 ELSE total[1]

\* Mutant of ProgressPayload: the event carries no total.
ProgressPayloadNoTotal(b) == [file |-> b.label, downloaded |-> b.n]

ProgressPayload(b) ==
    [file |-> b.label, downloaded |-> b.n, total |-> TotalOrZero(b.total)]

\* self._emit(force) at time now on the bar b of file i, after the operations
\* o of this step: writes the event, then sets self._last_emit and, through
\* record_progress_emit(), the module global.
BarEmit(b, force, now, i, o) ==
    IF ThrottleSuppresses(force, now, b.last_emit)
    THEN /\ bar' = b
         /\ ops' = o
         /\ UNCHANGED << stdout, LAST_PROGRESS_EMIT, last_progress >>
    ELSE /\ Emit("progress", ProgressPayload(b))
         /\ bar' = [b EXCEPT !.last_emit = now]
         /\ LAST_PROGRESS_EMIT' = now
         /\ ops' = Append(o, [op |-> "progress", i |-> i])
         /\ last_progress' =
                [last_progress EXCEPT ![i] =
                    Some([downloaded |-> b.n, total |-> TotalOrZero(b.total)])]

\* Mutant of UpdateN: a disabled tqdm does no accounting and the override
\* does not make up for it.
UpdateNDisabledDrops(disable, n, k) == IF disable THEN n ELSE n + k

\* update(n): both branches (tqdm disabled or not) add n to self.n.
UpdateN(disable, n, k) == IF disable THEN n + k ELSE n + k

\* --------------------------------------------------- download_file / main
\* Mutant of OnDownloadError: the error is reported and the loop goes on.
OnDownloadErrorContinues(i, exc) ==
    /\ Emit("error", [message |-> [text |-> "Failed to download",
                                   subject |-> display_name(file_specs[i]),
                                   detail |-> exc]])
    /\ pc' = "loop"
    /\ idx' = idx + 1
    /\ UNCHANGED exit_code

\* except Exception as exc:
\*     emit("error", message=f"Failed to download {spec.display_name}: {exc}")
\*     return 65
OnDownloadError(i, exc) ==
    /\ Emit("error", [message |-> [text |-> "Failed to download",
                                   subject |-> display_name(file_specs[i]),
                                   detail |-> exc]])
    /\ Exit(65)
    /\ idx' = idx

\* Mutant of LoopExhausted: the loop stops one spec early.
LoopExhaustedEarly(i, specs) == i >= Len(specs)

\* `for spec in file_specs` has no spec left at position i.
LoopExhausted(i, specs) == i > Len(specs)

\* The loop is exhausted: emit("complete"); return 0
SessionComplete ==
    /\ pc = "loop"
    /\ LoopExhausted(idx, file_specs)
    /\ Emit("complete", [x \in {} |-> x])
    /\ Exit(0)
    /\ UNCHANGED << fs, argv, env, horizon, environ, stderr, hf_xet_version, file_specs, idx,
                    downloaded_path, bar, clock, LAST_PROGRESS_EMIT, ops, xfer,
                    last_progress >>

\* download_file begins for the next spec: ensure_dest_dir(destination_path.parent),
\* whose mkdir may raise OSError.
DownloadBegin ==
    /\ pc = "loop"
    /\ ~LoopExhausted(idx, file_specs)
    /\ \E ok \in BOOLEAN :
          IF ok
          THEN /\ Log("mkdir", idx)
               /\ pc' = "hf_hub_download"
               /\ fs' \in FilesBefore
               /\ UNCHANGED << stdout, exit_code, idx >>
          ELSE /\ Log("mkdir failed", idx)
               /\ OnDownloadError(idx, "mkdir")
               /\ fs' = NoFiles
    /\ UNCHANGED << argv, env, horizon, environ, stderr, hf_xet_version, file_specs,
                    downloaded_path, bar, clock, LAST_PROGRESS_EMIT, xfer,
                    last_progress >>

\* The paths download_file compares: hf_hub_download returns a str, the
\* destination is a pathlib.Path.
StrPath(at) == [type |-> "str", at |-> at]
PurePath(at) == [type |-> "Path", at |-> at]
destination_path == PurePath("destination")
ReturnedPaths == { StrPath("destination"), StrPath("cache") }

\* The paths once hf_hub_download has returned p: the complete file is at p
\* (a file found already in place is the one that was there).
Returned(f, p, transferred) ==
    IF p.at = "cache" THEN [f EXCEPT !.cache = "new"]
    ELSE [f EXCEPT !.destination = IF transferred THEN "new" ELSE @]

\* Mutant of OsReplace: the file is copied and the source deleted, and a
\* copy that fails leaves a part of the file at the destination.
OsReplaceByCopy(f, p, ok) ==
    IF p.at = "destination" THEN f
    ELSE IF ok THEN [destination |-> f.cache, cache |-> "absent"]
    ELSE [f EXCEPT !.destination = "truncated"]

\* os.replace(downloaded_path, destination_path): one rename, which on
\* failure (OSError) leaves both paths as they were; renaming a file to
\* itself changes nothing.
OsReplace(f, p, ok) ==
    IF p.at = "destination" THEN f
    ELSE IF ok THEN [destination |-> f.cache, cache |-> "absent"]
    ELSE f

\* hf_hub_download raises before any progress bar exists.
HfCallRaises ==
    /\ pc = "hf_hub_download"
    /\ ops' = ops \o << [op |-> "hf_hub_download", i |-> idx],
                        [op |-> "raised", i |-> idx] >>
    /\ OnDownloadError(idx, "hf_hub_download")
    /\ UNCHANGED << fs, argv, env, horizon, environ, stderr, hf_xet_version, file_specs,
                    downloaded_path, bar, clock, LAST_PROGRESS_EMIT, xfer,
                    last_progress >>

\* hf_hub_download returns without transferring (the file is already there).
HfCallReturns ==
    /\ pc = "hf_hub_download"
    /\ ops' = ops \o << [op |-> "hf_hub_download", i |-> idx],
                        [op |-> "returned", i |-> idx] >>
    /\ \E p \in ReturnedPaths :
          /\ p.at = "destination" => fs.destination # "absent"
          /\ downloaded_path' = Some(p)
          /\ fs' = Returned(fs, p, FALSE)
    /\ pc' = "compare"
    /\ UNCHANGED << argv, env, horizon, environ, stdout, stderr, exit_code,
                    hf_xet_version, file_specs, idx, bar, clock,
                    LAST_PROGRESS_EMIT, xfer, last_progress >>

\* hf_hub_download starts a transfer of `length` bytes and constructs
\* tqdm_class(total=..., initial=..., desc=filename): JsonProgressBar.__init__
\* sets _last_emit = 0.0 and calls self._emit(force=True).
HfCallOpensBar ==
    /\ pc = "hf_hub_download"
    /\ \E d \in OpenDelays, length \in 1..MaxSize, known \in BOOLEAN :
       \E initial \in 0..(length - 1) :
          /\ clock + d <= horizon
          /\ clock' = clock + d
          /\ xfer' = [NoXfer EXCEPT !.length = length, !.ctor_at = clock + d,
                                    !.last_at = clock + d,
                                    !.forced = 1, !.initial = initial,
                                    !.emitted = << << initial, initial >> >>]
          /\ BarEmit([live |-> TRUE, label |-> file_specs[idx].path,
                      n |-> initial,
                      total |-> IF known THEN Some(length) ELSE None,
                      last_emit |-> 0],
                     TRUE, clock + d, idx,
                     Append(ops, [op |-> "hf_hub_download", i |-> idx]))
    /\ pc' = "transferring"
    /\ UNCHANGED << fs, argv, env, horizon, environ, stderr, exit_code, hf_xet_version,
                    file_specs, idx, downloaded_path >>

\* The library reports k more bytes: JsonProgressBar.update(k).
HfUpdate ==
    /\ pc = "transferring"
    /\ \E d \in Delays, k \in 0..(xfer.length - bar.n), disable \in BOOLEAN :
          LET now == clock + d
              b   == [bar EXCEPT !.n = UpdateN(disable, bar.n, k)]
              emits == ~ThrottleSuppresses(FALSE, now, bar.last_emit)
          IN  /\ now <= horizon
              /\ clock' = now
              /\ BarEmit(b, FALSE, now, idx, ops)
              /\ xfer' = [xfer EXCEPT
                    !.first_upd = IF xfer.first_upd = None THEN Some(now) ELSE @,
                    !.last_upd = Some(now),
                    !.last_at = IF emits THEN now ELSE @,
                    !.throttled = IF emits THEN @ + 1 ELSE @,
                    !.gaps = IF emits THEN @ \cup {now - bar.last_emit} ELSE @,
                    !.advanced = @ + k,
                    !.emitted = IF emits
                                THEN Append(@, << b.n, xfer.initial + xfer.advanced + k >>)
                                ELSE @]
    /\ UNCHANGED << fs, argv, env, horizon, environ, stderr, exit_code, hf_xet_version,
                    file_specs, idx, downloaded_path, pc >>

\* The transfer fails part-way: hf_hub_download raises.
HfRaises ==
    /\ pc = "transferring"
    /\ Log("raised", idx)
    /\ bar' = NoBar
    /\ xfer' = NoXfer
    /\ OnDownloadError(idx, "hf_hub_download")
    /\ UNCHANGED << fs, argv, env, horizon, environ, stderr, hf_xet_version, file_specs,
                    downloaded_path, clock, LAST_PROGRESS_EMIT, last_progress >>

\* Mutant of HfReturns: download_file returns as soon as hf_hub_download
\* does, and the file is not placed before the loop goes on.
HfReturnsUnplaced ==
    /\ pc = "transferring"
    /\ bar.n = xfer.length
    /\ Log("returned", idx)
    /\ bar' = NoBar
    /\ xfer' = NoXfer
    /\ idx' = idx + 1
    /\ pc' = "loop"
    /\ UNCHANGED << fs, argv, env, horizon, environ, stdout, stderr, exit_code,
                    hf_xet_version, file_specs, downloaded_path, clock,
                    LAST_PROGRESS_EMIT, last_progress >>

\* All bytes are there: the library closes the bar (tqdm.close, which
\* JsonProgressBar does not override) and hf_hub_download returns a path.
HfReturns ==
    /\ pc = "transferring"
    /\ bar.n = xfer.length
    /\ Log("returned", idx)
    /\ bar' = NoBar
    /\ xfer' = NoXfer
    /\ \E p \in ReturnedPaths :
          /\ downloaded_path' = Some(p)
          /\ fs' = Returned(fs, p, TRUE)
    /\ pc' = "compare"
    /\ UNCHANGED << argv, env, horizon, environ, stdout, stderr, exit_code,
                    hf_xet_version, file_specs, idx, clock, LAST_PROGRESS_EMIT,
                    last_progress >>

\* `downloaded_path != destination_path`
PathsDiffer(a, b) == a # b

\* How the two calls of the move end for the returned path p: the mkdir or
\* the rename may raise OSError, except for a file that is already at the
\* destination (its directory exists, and renaming it to itself succeeds).
PlaceOutcomes(p) ==
    IF p.at = "destination" THEN {"ok"} ELSE {"ok", "mkdir", "os.replace"}

\* if downloaded_path != destination_path:
\*     ensure_dest_dir(destination_path.parent); os.replace(...)
\* then the timing line on stderr, and the loop of main goes on.
Place ==
    /\ pc = "compare"
    /\ IF PathsDiffer(downloaded_path[1], destination_path)
       THEN \E outcome \in PlaceOutcomes(downloaded_path[1]) :
               /\ ops' = ops \o
                     (CASE outcome = "mkdir" ->
                             << [op |-> "mkdir failed", i |-> idx] >>
                        [] outcome = "os.replace" ->
                             << [op |-> "mkdir", i |-> idx],
                                [op |-> "os.replace failed", i |-> idx] >>
                        [] outcome = "ok" ->
                             << [op |-> "mkdir", i |-> idx],
                                [op |-> "os.replace", i |-> idx],
                                [op |-> "finished", i |-> idx] >>)
               /\ fs' = IF outcome = "mkdir" THEN fs
                        ELSE OsReplace(fs, downloaded_path[1], outcome = "ok")
               /\ IF outcome = "ok"
                  THEN /\ stderr' = Append(stderr, "Downloaded")
                       /\ idx' = idx + 1
                       /\ pc' = "loop"
                       /\ UNCHANGED << stdout, exit_code >>
                  ELSE /\ OnDownloadError(idx, outcome)
                       /\ UNCHANGED stderr
       ELSE /\ stderr' = Append(stderr, "Downloaded")
            /\ idx' = idx + 1
            /\ pc' = "loop"
            /\ Log("finished", idx)
            /\ UNCHANGED << fs, stdout, exit_code >>
    /\ downloaded_path' = None
    /\ UNCHANGED << argv, env, horizon, environ, hf_xet_version, file_specs, bar, clock,
                    LAST_PROGRESS_EMIT, xfer, last_progress >>

Next ==
    \/ ImportHuggingfaceHub
    \/ ImportTqdm
    \/ ParseArgs
    \/ SetDefaults
    \/ RequireHfXet
    \/ HubVersion
    \/ ProbeReport
    \/ ParseFileSpecs
    \/ ResolvePaths
    \/ SessionComplete
    \/ DownloadBegin
    \/ HfCallRaises
    \/ HfCallReturns
    \/ HfCallOpensBar
    \/ HfUpdate
    \/ HfRaises
    \/ HfReturns
    \/ Place

Spec == Init /\ [][Next]_vars

\* ------------------------------------------- one transfer, observed longer
\* The session has reached the hf_hub_download call of the only file of a
\* one-file plan, with every dependency present and nothing written yet but
\* the banner.
InitBar ==
    /\ pc = "hf_hub_download"
    /\ argv \in [required : {TRUE}, probe : {FALSE},
                 files : { << e >> : e \in { r \in RawEntries :
                                              parse_file_specs(<< r >>).ok } }]
    /\ env = [huggingface_hub |-> TRUE, tqdm |-> TRUE, hf_xet |-> TRUE,
              hf_xet_metadata |-> TRUE, huggingface_hub_metadata |-> TRUE,
              dest_resolves |-> TRUE]
    /\ environ \in { SetDefault(SetDefault(e, "HF_HUB_DISABLE_TELEMETRY"),
                                  "HF_HUB_DISABLE_SYMLINKS_WARNING") :
                       e \in CallerEnviron }
    /\ stdout = <<>>
    /\ stderr = << "Downloading from" >>
    /\ exit_code = None
    /\ hf_xet_version = Some("installed")
    /\ file_specs = parse_file_specs(argv.files).specs
    /\ idx = 1
    /\ downloaded_path = None
    /\ bar = NoBar
    /\ fs \in FilesBefore
    /\ clock = 0
    /\ horizon = MaxBarTicks * 100
    /\ LAST_PROGRESS_EMIT = 0
    /\ ops = << [op |-> "parse_file_specs", i |-> 0], [op |-> "mkdir", i |-> 1] >>
    /\ xfer = NoXfer
    /\ last_progress = << None >>

NextBar ==
    \/ HfCallOpensBar
    \/ HfUpdate
    \/ HfRaises
    \/ HfReturns

SpecBar == InitBar /\ [][NextBar]_vars

\* ------------------------------------------------ parse_file_specs alone
\* The characters raw --file values are made of.
Chars == {"a", "/", " ", "\t", ":", "=", "1"}

\* The two entries the parsing rule is documented with.
ExampleSized == <<"a", "/", "b", ".", "t", "x", "t", ":", ":", "1", "0", "2", "4">>
ExamplePadded == <<" ", " ", "/", "a", ".", "t", "x", "t", " ">>

\* The entries lists of --file values are drawn from.
ListEntries ==
    { <<"a">>, <<"/", "a", "=", "1">>, <<" ">>, <<"/">>, <<"\t">>,
      <<"/", "\t", "a">>, ExamplePadded }

\* The --file lists parse_file_specs is applied to: every single entry of
\* up to MaxRawLen characters, the documented examples, and lists.
ParseInputs ==
    { << e >> : e \in SeqsUpTo(Chars, MaxRawLen) \cup {ExampleSized, ExamplePadded} }
        \cup SeqsUpTo(ListEntries, MaxFiles)

\* main is about to call parse_file_specs(args.files): every dependency
\* was found and --probe was not given.
InitParse ==
    /\ pc = "probe"
    /\ argv \in [required : {TRUE}, probe : {FALSE}, files : ParseInputs \ { <<>> }]
    /\ env = [huggingface_hub |-> TRUE, tqdm |-> TRUE, hf_xet |-> TRUE,
              hf_xet_metadata |-> TRUE, huggingface_hub_metadata |-> TRUE,
              dest_resolves |-> TRUE]
    /\ environ \in { SetDefault(SetDefault(e, "HF_HUB_DISABLE_TELEMETRY"),
                                  "HF_HUB_DISABLE_SYMLINKS_WARNING") :
                       e \in CallerEnviron }
    /\ stdout = <<>>
    /\ stderr = <<>>
    /\ exit_code = None
    /\ hf_xet_version = Some("installed")
    /\ file_specs = <<>>
    /\ idx = 0
    /\ downloaded_path = None
    /\ bar = NoBar
    /\ fs = NoFiles
    /\ clock = 0
    /\ horizon = 0
    /\ LAST_PROGRESS_EMIT = 0
    /\ ops = <<>>
    /\ xfer = NoXfer
    /\ last_progress = <<>>

NextParse == ParseFileSpecs

SpecParse == InitParse /\ [][NextParse]_vars

\* ------------------------------------------------------------ properties
HasOp(op, i) == \E n \in DOMAIN ops : ops[n] = [op |-> op, i |-> i]

Events(status) == SelectSeq(stdout, LAMBDA e : e.status = status)

Terminated == pc = "done"

\* The transfer of the file at position k failed: the external call raised,
\* or the move (its mkdir or its rename) did.
Failed(k) ==
    \/ HasOp("raised", k)
    \/ HasOp("os.replace failed", k)
    \/ HasOp("mkdir failed", k)

\* The failure message of the file at position k.
FailureOf(k) ==
    IF HasOp("raised", k) THEN "hf_hub_download"
    ELSE IF HasOp("os.replace failed", k) THEN "os.replace" ELSE "mkdir"

\* Both base libraries were imported and argparse accepted the command line.
SessionStarted ==
    /\ pc \notin {"import_huggingface_hub", "import_tqdm", "parse_args"}
    /\ exit_code \notin {Some(97), Some(98), Some(2)}

\* C1: once the transfer (the external call or the move) of the file at
\* position k has failed, stdout holds exactly one error event, it names
\* file k and carries the failure's message, no external call and no move
\* was invoked for any later file, there is no complete event, and the
\* process has exited with code 65.
C1_FirstFailureAborts ==
    \A k \in 1..Len(file_specs) :
        Failed(k) =>
            /\ Len(Events("error")) = 1
            /\ Events("error")[1].message =
                   [text |-> "Failed to download",
                    subject |-> file_specs[k].path, detail |-> FailureOf(k)]
            /\ \A j \in (k + 1)..Len(file_specs) :
                   /\ ~HasOp("hf_hub_download", j)
                   /\ ~HasOp("mkdir", j)
                   /\ ~HasOp("os.replace", j)
            /\ Events("complete") = <<>>
            /\ Terminated
            /\ exit_code = Some(65)

\* C1 witness: the second file of a two-file plan failed in mid-transfer
\* after the first one was placed.
C1_Witness ==
    /\ Len(file_specs) = 2
    /\ HasOp("finished", 1)
    /\ HasOp("raised", 2)
    /\ HasOp("progress", 2)
    /\ Terminated

\* C2 (as claimed): a run that got past the two base-library imports and
\* ended with a non-zero exit code has written an error or unavailable
\* event to stdout.
C2_EveryFailureHasEvent ==
    ( /\ Terminated
      /\ exit_code \notin {Some(97), Some(98)}
      /\ exit_code # Some(0) )
    => \E n \in DOMAIN stdout : stdout[n].status \in {"error", "unavailable"}

\* C3 (as claimed): a session started with the probe flag, with hf_xet
\* importable (and the command line accepted and the version lookups
\* succeeding), ends with exactly one probe event on stdout and exit code 0,
\* having parsed no file spec and touched neither network nor filesystem.
C3_ProbeMode ==
    ( /\ Terminated
      /\ SessionStarted
      /\ argv.probe
      /\ env.hf_xet
      /\ env.huggingface_hub_metadata )
    => /\ Len(stdout) = 1
       /\ stdout[1].status = "probe"
       /\ exit_code = Some(0)
       /\ ops = <<>>

\* C4: in a session that reached main's dependency check with hf_xet not
\* importable, whatever the probe flag and the file specs, stdout never
\* holds anything but one unavailable event with its reason, no file spec is
\* parsed and no transfer started, and the process ends with that event
\* written and exit code 90.
C4_DependencyCheckFirst ==
    (SessionStarted /\ ~env.hf_xet) =>
        /\ \A n \in DOMAIN stdout :
               stdout[n] = [status |-> "unavailable",
                            reason |-> "hf_xet not available"]
        /\ Len(stdout) <= 1
        /\ ops = <<>>
        /\ pc \in {"setdefault", "require_hf_xet", "done"}
        /\ Terminated => (Len(stdout) = 1 /\ exit_code = Some(90))

\* C4 witness: the probe flag is set, a file spec is invalid, hf_xet is
\* missing, and the session has ended.
C4_Witness ==
    /\ Terminated
    /\ SessionStarted
    /\ ~env.hf_xet
    /\ argv.probe
    /\ ~parse_file_specs(argv.files).ok
    /\ exit_code = Some(90)

\* The file-spec list is empty (none supplied, or all blank) or has an entry
\* that normalizes to an empty path.
BadFileSpecs(files) ==
    \/ \A n \in DOMAIN files : Strip(files[n]) = <<>>
    \/ \E n \in DOMAIN files :
          Strip(files[n]) # <<>> /\ ParseEntry(Strip(files[n])).path = <<>>

\* C5 (as claimed): a non-probe session (base libraries, hf_xet and the
\* version metadata all present, the other required options given) whose
\* file-spec list is empty or has an entry normalizing to an empty path ends
\* with an error event and exit code 64, without creating a directory or
\* calling the external transfer.
C5_ArgumentFailure ==
    ( /\ Terminated
      /\ env.huggingface_hub /\ env.tqdm /\ env.hf_xet
      /\ env.huggingface_hub_metadata
      /\ argv.required
      /\ ~argv.probe
      /\ BadFileSpecs(argv.files) )
    => /\ Events("error") # <<>>
       /\ exit_code = Some(64)
       /\ \A n \in DOMAIN ops : ops[n].op = "parse_file_specs"

\* The file at position i was transferred and placed: hf_hub_download
\* returned and download_file ran to its end.
Succeeded(i) == HasOp("returned", i) /\ HasOp("finished", i) /\ ~Failed(i)

\* C6: stdout holds at most one complete event; when it holds one, that is
\* its last line, every file of the (non-empty) plan was transferred and
\* placed, and the process has ended; and a process that has ended has exit
\* code 0 exactly when the last line of stdout is complete or probe.
C6_CompleteIsTerminal ==
    /\ Len(Events("complete")) <= 1
    /\ Events("complete") # <<>> =>
           /\ stdout[Len(stdout)].status = "complete"
           /\ file_specs # <<>>
           /\ \A i \in 1..Len(file_specs) : Succeeded(i)
           /\ Terminated
    /\ Terminated =>
           ( exit_code = Some(0)
             <=> ( /\ stdout # <<>>
                   /\ stdout[Len(stdout)].status \in {"complete", "probe"} ) )

\* C6 witness: a two-file session ended with complete after progress events.
C6_Witness ==
    /\ Terminated
    /\ Len(file_specs) = 2
    /\ Events("complete") # <<>>
    /\ Events("progress") # <<>>
    /\ exit_code = Some(0)

\* The position in the history of the first record of op for file i (0 when
\* there is none).
PosOf(op, i) ==
    IF HasOp(op, i)
    THEN CHOOSE n \in DOMAIN ops :
            /\ ops[n] = [op |-> op, i |-> i]
            /\ \A m \in 1..(n - 1) : ops[m] # ops[n]
    ELSE 0

\* C7: the history of calls is ordered by file position, so everything
\* recorded for file i (its external call, its progress events, its move) is
\* before the external call of any later file j; when the call for file j is
\* invoked, each earlier file's call has returned and its download_file has
\* run to its end, in that order; and between two external calls the earlier
\* one has returned, so no two transfers are in progress together.
C7_SequentialOrdering ==
    /\ \A p \in 1..(Len(ops) - 1) : ops[p].i <= ops[p + 1].i
    /\ \A q \in DOMAIN ops :
           ops[q].op = "hf_hub_download" =>
               \A i \in 1..(ops[q].i - 1) :
                   /\ 0 < PosOf("hf_hub_download", i)
                   /\ PosOf("hf_hub_download", i) < PosOf("returned", i)
                   /\ PosOf("returned", i) < PosOf("finished", i)
                   /\ PosOf("finished", i) < q
    /\ \A p, q \in DOMAIN ops :
           (p < q /\ ops[p].op = "hf_hub_download"
                  /\ ops[q].op = "hf_hub_download") =>
               \E r \in (p + 1)..(q - 1) :
                   ops[r] = [op |-> "returned", i |-> ops[p].i]

\* C7 witness: the second file's transfer is in progress after the first
\* file made progress and was moved.
C7_Witness ==
    /\ pc = "transferring"
    /\ idx = 2
    /\ HasOp("progress", 1)
    /\ HasOp("os.replace", 1)
    /\ HasOp("progress", 2)

\* C8 (as claimed): every non-forced emission of the live bar came more
\* than 200 ms after the bar's previous emission.
C8_EmitsOnlyAfterMoreThanInterval ==
    \A g \in xfer.gaps : g > MIN_PROGRESS_INTERVAL_S

\* C8 (amended): every non-forced emission of the live bar came at least
\* 200 ms after the bar's previous emission; and while all update calls fall
\* within less than 200 ms of the bar's construction, no update has emitted
\* and the bar's only event is the one of its construction.
C8_ThrottleUpperBound ==
    /\ \A g \in xfer.gaps : g >= MIN_PROGRESS_INTERVAL_S
    /\ ( /\ bar.live
         /\ xfer.last_upd # None
         /\ xfer.last_upd[1] - xfer.ctor_at < MIN_PROGRESS_INTERVAL_S )
       => /\ xfer.throttled = 0
          /\ xfer.forced <= 2
          /\ Len(Events("progress")) = xfer.forced
          /\ Len(Events("progress")) = 1

\* C8 witness: a bar whose updates have emitted, one of them exactly 200 ms
\* after the previous emission, and one update was suppressed before.
C8_Witness ==
    /\ bar.live
    /\ MIN_PROGRESS_INTERVAL_S \in xfer.gaps
    /\ xfer.first_upd # None
    /\ xfer.first_upd[1] - xfer.ctor_at < MIN_PROGRESS_INTERVAL_S

\* C9: when the first and the last update call of the live bar are more than
\* 200 ms apart, some update has emitted: stdout holds a progress event
\* besides the one of the bar's construction.
C9_NotStarved ==
    ( /\ bar.live
      /\ xfer.first_upd # None
      /\ xfer.last_upd[1] - xfer.first_upd[1] > MIN_PROGRESS_INTERVAL_S )
    => /\ xfer.throttled >= 1
       /\ Len(Events("progress")) >= 2

\* C9 witness: update calls 300 ms apart, and exactly one update emitted.
C9_Witness ==
    /\ bar.live
    /\ xfer.first_upd # None
    /\ xfer.last_upd[1] - xfer.first_upd[1] = 300
    /\ xfer.throttled = 1

\* C10 (as claimed): once complete is emitted, for every file transferred
\* and placed whose total was known, the last progress event emitted for it
\* has downloaded = total.
C10_CompletionEmission ==
    \A i \in 1..Len(file_specs) :
        ( /\ Events("complete") # <<>>
          /\ Succeeded(i)
          /\ last_progress[i] # None
          /\ last_progress[i][1].total > 0 )
        => last_progress[i][1].downloaded = last_progress[i][1].total

IsBlank(e) == \A m \in DOMAIN e : e[m] \in Whitespace

\* t is e without its leading and trailing whitespace.
TrimOf(e, t) ==
    \E a \in 0..Len(e) : \E b \in a..Len(e) :
        /\ t = SubSeq(e, a + 1, b)
        /\ \A m \in 1..a : e[m] \in Whitespace
        /\ \A m \in (b + 1)..Len(e) : e[m] \in Whitespace
        /\ t # <<>> => (t[1] \notin Whitespace /\ t[Len(t)] \notin Whitespace)

\* p is s without its leading characters of the set lead.
LeadStrippedOf(s, p, lead) ==
    \E a \in 0..Len(s) :
        /\ p = SubSeq(s, a + 1, Len(s))
        /\ \A m \in 1..a : s[m] \in lead
        /\ p # <<>> => p[1] \notin lead

\* The positions of t at which the delimiter sep begins.
DelimiterAt(t, sep) ==
    { m \in 1..(Len(t) - Len(sep) + 1) : SubSeq(t, m, m + Len(sep) - 1) = sep }

\* size is the integer value of text, or unset when text is not an integer.
SizeOf(text, size) ==
    IF PyInt(text).ok THEN size = Some(PyInt(text).value) ELSE size = None

\* The text before and after the last occurrence of sep in t.
Before(t, sep) == SubSeq(t, 1, Max(DelimiterAt(t, sep)) - 1)
After(t, sep) == SubSeq(t, Max(DelimiterAt(t, sep)) + Len(sep), Len(t))

\* The delimiter the rule splits t at: "::" if it occurs, else "=" if it
\* occurs, else none.
DelimiterOf(t) ==
    IF DelimiterAt(t, <<":", ":">>) # {} THEN << <<":", ":">> >>
    ELSE IF DelimiterAt(t, <<"=">>) # {} THEN << <<"=">> >>
    ELSE <<>>

\* The parsing rule for one trimmed entry t and its FileSpec, with lead the
\* characters stripped from the front of the path.
EntryRule(t, spec, lead) ==
    IF DelimiterOf(t) = <<>>
    THEN LeadStrippedOf(t, spec.path, lead) /\ spec.size = None
    ELSE /\ LeadStrippedOf(Before(t, DelimiterOf(t)[1]), spec.path, lead)
         /\ SizeOf(After(t, DelimiterOf(t)[1]), spec.size)

\* The entries of the list that are not blank, in their order.
NonBlank(files) == SelectSeq(files, LAMBDA e : ~IsBlank(e))

\* The rule holds between the k-th non-blank entry and the k-th FileSpec.
RuleHolds(lead) ==
    /\ Len(file_specs) = Len(NonBlank(argv.files))
    /\ \A k \in DOMAIN file_specs :
           \E a \in 0..Len(NonBlank(argv.files)[k]) :
           \E b \in a..Len(NonBlank(argv.files)[k]) :
               LET t == SubSeq(NonBlank(argv.files)[k], a + 1, b)
               IN  /\ TrimOf(NonBlank(argv.files)[k], t)
                   /\ EntryRule(t, file_specs[k], lead)

\* The two documented examples parse as documented.
ExamplesParse ==
    /\ argv.files = << ExampleSized >> =>
           file_specs = << [path |-> <<"a", "/", "b", ".", "t", "x", "t">>,
                            size |-> Some(1024)] >>
    /\ argv.files = << ExamplePadded >> =>
           file_specs = << [path |-> <<"a", ".", "t", "x", "t">>,
                            size |-> None] >>

\* C12 as stated: every non-blank entry parsed by parse_file_specs is split
\* at the last occurrence of the first of "::", "=" that occurs in it, its
\* size is the integer value of the text after the delimiter or unset, an
\* entry with no delimiter is the path with no size, and leading slashes and
\* whitespace are stripped from the path.  Violated: "/<TAB>a" keeps its
\* leading tab, lstrip("/ ") strips slashes and spaces only.
C12_ParsingRuleWhitespace ==
    (pc = "resolve" /\ HasOp("parse_file_specs", 0)) =>
        RuleHolds({"/"} \cup Whitespace) /\ ExamplesParse

\* C12, amended: the same rule with leading slashes and spaces (U+0020)
\* stripped from the path.
C12_ParsingRule ==
    (pc = "resolve" /\ HasOp("parse_file_specs", 0)) =>
        RuleHolds({"/", " "}) /\ ExamplesParse

\* An entry holding both delimiters, "=" first, has been split at "::".
C12_Witness ==
    /\ pc = "resolve"
    /\ argv.files = << <<"=", ":", ":", "1">> >>
    /\ file_specs = << [path |-> <<"=">>, size |-> Some(1)] >>

\* ------------------------------------------------------------------- C13
\* The path part of the trimmed entry t is empty once the characters of
\* lead are stripped from its front.
NormalizesEmpty(t, lead) ==
    LET part == IF DelimiterOf(t) = <<>> THEN t ELSE Before(t, DelimiterOf(t)[1])
    IN  \A m \in DOMAIN part : part[m] \in lead

\* Some non-blank entry of the list normalizes to an empty path.
SomeNormalizesEmpty(lead) ==
    \E k \in DOMAIN NonBlank(argv.files) :
        NormalizesEmpty(Strip(NonBlank(argv.files)[k]), lead)

\* parse_file_specs returned a plan or failed with an invalid-argument
\* error, as the list and the stripped characters lead require.
PlanValid(lead) ==
    IF NonBlank(argv.files) = <<>> \/ SomeNormalizesEmpty(lead)
    THEN /\ pc = "done"
         /\ exit_code = Some(64)
         /\ file_specs = <<>>
         /\ Len(stdout) = 1
         /\ stdout[1].status = "error"
         /\ (NonBlank(argv.files) = <<>>) =
                (stdout[1].message.text = "At least one --file argument is required")
    ELSE /\ pc = "resolve"
         /\ file_specs # <<>>
         /\ RuleHolds(lead)
         /\ \A k \in DOMAIN file_specs :
                /\ file_specs[k].path # <<>>
                /\ file_specs[k].path[1] \notin lead

\* C13 as stated: when parse_file_specs returns, the plan is non-empty, each
\* FileSpec has a non-empty path with no leading slash or leading whitespace,
\* and there is one FileSpec per non-blank entry in the entries' order;
\* otherwise it fails with an invalid-argument error, when no entry is left
\* after filtering blanks or when an entry normalizes to an empty path.
\* Violated: "/<TAB>a" yields the path "<TAB>a".
C13_PlanValidityWhitespace ==
    HasOp("parse_file_specs", 0) => PlanValid({"/"} \cup Whitespace)

\* C13, amended: the same with "no leading slash or leading space (U+0020)".
C13_PlanValidity ==
    HasOp("parse_file_specs", 0) => PlanValid({"/", " "})

\* A list of two entries has been parsed to a plan of two, in the entries'
\* order.
C13_Witness ==
    /\ pc = "resolve"
    /\ argv.files = << <<"/", "a", "=", "1">>, <<"a">> >>
    /\ Len(file_specs) = 2
    /\ file_specs[1].size = Some(1)
    /\ file_specs[2].size = None

\* ------------------------------------------------------------------- C14
\* C14: when hf_hub_download returned a path other than the destination,
\* download_file makes sure the destination's parent directory exists and
\* then places the file with one rename; in every state, a failed move
\* included, the destination is absent, holds its previous complete content,
\* or holds the complete new file, never a part of it; a move that succeeded
\* leaves a complete file at the destination and none at the returned path.
C14_AtomicPlacement ==
    /\ fs.destination \in {"absent", "old", "new"}
    /\ \A n \in DOMAIN ops :
           ops[n].op \in {"os.replace", "os.replace failed"} =>
               /\ n > 1
               /\ ops[n - 1] = [op |-> "mkdir", i |-> ops[n].i]
    /\ (pc = "loop" /\ idx > 1 /\ HasOp("os.replace", idx - 1)) =>
           /\ fs.destination \in {"old", "new"}
           /\ fs.cache = "absent"
    /\ (pc = "done" /\ idx >= 1 /\ HasOp("os.replace failed", idx)
            /\ fs.cache = "new") =>
           fs.destination \in {"absent", "old"}

\* A move from the cache path failed, and the destination still holds the
\* file of an earlier session.
C14_Witness ==
    /\ pc = "done"
    /\ idx >= 1
    /\ HasOp("os.replace failed", idx)
    /\ fs.cache = "new"
    /\ fs.destination = "old"

\* ------------------------------------------------------------------- C15
\* C15: while a file's progress bar exists, its construction has emitted
\* exactly one progress event, as the step right after the external call
\* began and before any update call, however recently an earlier bar
\* emitted; that event is the first progress event of the file and reports
\* the count the bar was constructed with.
C15_ConstructionEmission ==
    pc = "transferring" =>
        LET n == PosOf("hf_hub_download", idx)
        IN  /\ n > 0
            /\ n < Len(ops)
            /\ ops[n + 1] = [op |-> "progress", i |-> idx]
            /\ \A m \in 1..n : ops[m] # [op |-> "progress", i |-> idx]
            /\ Cardinality({ m \in (n + 1)..Len(ops) : ops[m].op = "progress" })
                   = 1 + xfer.throttled
            /\ xfer.first_upd = None =>
                   /\ stdout # <<>>
                   /\ stdout[Len(stdout)].status = "progress"
                   /\ stdout[Len(stdout)].file = file_specs[idx].path
                   /\ stdout[Len(stdout)].downloaded = xfer.initial

\* The second file's bar has just been constructed, less than 200 ms after
\* the first file's bar emitted.
C15_Witness ==
    /\ pc = "transferring"
    /\ idx = 2
    /\ xfer.first_upd = None
    /\ HasOp("progress", 1)
    /\ clock < MIN_PROGRESS_INTERVAL_S

\* ------------------------------------------------------------------- C16
\* The best-known total: the resolved content length when known, otherwise
\* the file spec's size hint, otherwise 0.
BestKnownTotal(length, hint) ==
    IF length # None THEN length[1] ELSE IF hint # None THEN hint[1] ELSE 0

\* C16 (as claimed): the total of every progress event a file's bar emits is
\* the content length the library resolved when it is known, otherwise the
\* size hint of the file's spec, otherwise 0.  Violated: the hint of "b::2"
\* never reaches the bar, and an unknown length is emitted as total 0.
C16_BestKnownTotal ==
    (bar.live /\ last_progress[idx] # None) =>
        last_progress[idx][1].total =
            BestKnownTotal(bar.total, file_specs[idx].size)

\* ------------------------------------------------------------------- C17
\* huggingface_hub has been imported.
HubImported == pc # "import_huggingface_hub" /\ exit_code # Some(97)

\* C17 (as claimed): once the download library has been imported, each of
\* HF_HUB_DISABLE_TELEMETRY and HF_HUB_DISABLE_SYMLINKS_WARNING holds the
\* caller's value if the caller set it and "1" otherwise.  Violated: the
\* import is at module level and the variables are set later, in main.
C17_EnvironmentOrdering ==
    HubImported =>
        \A e \in CallerEnviron : \A v \in EnvVars :
            environ[v] = IF e[v] # None THEN e[v] ELSE Some("1")

\* ------------------------------------------------------------------- C18
\* The operations a step has added to the log.
Added == { ops'[n].op : n \in (Len(ops) + 1)..Len(ops') }

\* C18 (as claimed): the step of download_file after the external call
\* returned attempts the move (the mkdir, then the rename) exactly when the returned path is not the
\* destination, and for a returned path that is the destination it goes on
\* to the next file with the paths as they were.  Violated: a str is
\* compared with a pathlib.Path, the two are never equal, and os.replace is
\* called for a file already at its destination too.
C18_RenameIffPathDiffers ==
    [][ pc = "compare" =>
          /\ (Added \cap {"mkdir failed", "os.replace", "os.replace failed"} # {})
                 = (downloaded_path[1].at # destination_path.at)
          /\ downloaded_path[1].at = destination_path.at =>
                 (pc' = "loop" /\ fs' = fs) ]_vars

\* ------------------------------------------------------------------- C19
\* The keys of each protocol event, by its tag.
PayloadShape(status) ==
    CASE status = "progress" -> {"status", "file", "downloaded", "total"}
      [] status = "error" -> {"status", "message"}
      [] status = "unavailable" -> {"status", "reason"}
      [] status = "complete" -> {"status"}
      [] status = "probe" -> {"status", "hf_xet", "huggingface_hub"}
      [] OTHER -> {}

\* The number of lines of stderr that are the text t.
Diagnostics(t) == Len(SelectSeq(stderr, LAMBDA l : l = t))

UpdateStep == pc = "transferring" /\ pc' = "transferring"
Emitted == Len(stdout') = Len(stdout) + 1

\* An update call emits exactly when at least the interval has passed since
\* the last emission of the same bar (xfer.last_at), whatever earlier bars
\* did.
OwnTimestampDecides ==
    UpdateStep => (Emitted = (clock' - xfer.last_at >= MIN_PROGRESS_INTERVAL_S))

\* C20 (as claimed): the decision of an update call depends only on the
\* bar's own last-emit timestamp, and that timestamp is the only mutable
\* state shared inside the process: no step changes process-wide state.
\* Violated: every emission overwrites the module global _LAST_PROGRESS_EMIT.
C20_OnlyOwnTimestampMutable ==
    [][ OwnTimestampDecides /\ LAST_PROGRESS_EMIT' = LAST_PROGRESS_EMIT ]_vars

\* C20, amended: the decision of an update call depends only on the bar's
\* own last-emit timestamp; the process-wide timestamp is overwritten by
\* every emission (of a construction or of an update) and by nothing else,
\* and no decision follows it.
C20_EmitterIsolation ==
    [][ /\ OwnTimestampDecides
        /\ LAST_PROGRESS_EMIT' =
               IF Len(SelectSeq(stdout', LAMBDA e : e.status = "progress"))
                      > Len(Events("progress"))
               THEN clock' ELSE LAST_PROGRESS_EMIT ]_vars

\* The second file's bar has suppressed an update, the first file's bar
\* having emitted before it.
C20_Witness ==
    /\ pc = "transferring"
    /\ idx = 2
    /\ HasOp("progress", 1)
    /\ xfer.first_upd # None
    /\ xfer.throttled = 0
    /\ LAST_PROGRESS_EMIT = xfer.last_at

====
